---- MODULE Spec2Model ----
(***************************************************************************)
(* The domain layer of the PHDCCI internship portal (src/app.py): the      *)
(* three SQLite tables users, job_posts and applications, and the          *)
(* functions register_user, authenticate_user, post_job, apply_to_job,     *)
(* update_application_status and update_job_status that read and write     *)
(* them.                                                                   *)
(*                                                                         *)
(* Spec          runs the job and application functions one call at a      *)
(*               time (each call opens its connection, runs to its         *)
(*               return and closes it); users sign up along the way.       *)
(* IdentitySpec  runs register_user and authenticate_user one call at a    *)
(*               time, over every combination of their arguments.          *)
(* ConcSpec      runs two sessions, each making one apply_to_job or        *)
(*               register_user call statement by statement on a            *)
(*               connection of its own, as two Streamlit sessions do.      *)
(* ReviewSpec    applies and reviews through review_application_page.      *)
(* JobSpec       posts, lists and re-labels jobs.                          *)
(* ErrorSpec     runs the six writing functions and lets a call fail in    *)
(*               its except clause.                                        *)
(* ValidationSpec runs register_user over ill-formed arguments.            *)
(* PortalSpec    runs the script main() in one browser session, with       *)
(*               st.session_state and the buttons of the login and         *)
(*               registration pages.                                       *)
(*                                                                         *)
(* Columns that no modelled statement reads (full_name, organization,      *)
(* created_at, title, description, location, ..., posted_at, resume_path,  *)
(* cover_letter, skills) are left out of the rows.  Timestamps are the     *)
(* values of the clock `now`; the "%Y-%m-%d %H:%M:%S" strings the code     *)
(* stores are fixed-width, so they order as the clock values do.           *)
(***************************************************************************)
EXTENDS Integers, Sequences, FiniteSets, TLC

VARIABLES
    users,          \* table users: a set of rows
    job_posts,      \* table job_posts: a set of rows
    applications,   \* table applications: a set of rows
    seq_jobs,       \* sqlite_sequence entry of job_posts (AUTOINCREMENT)
    seq_apps,       \* sqlite_sequence entry of applications (AUTOINCREMENT)
    now,            \* the wall clock read by datetime.now()
    registered,     \* history: the password each successful registration was made with
    last,           \* the last call: its function, arguments and return value
    pc,             \* ConcSpec: the statement each session is at
    loc,            \* ConcSpec: each session's arguments and local variables
    wlock,          \* ConcSpec: the session holding SQLite's write lock, or NoSession
    session_state   \* PortalSpec: st.session_state of one browser session

vars == <<users, job_posts, applications, seq_jobs, seq_apps, now, registered,
          last, pc, loc, wlock, session_state>>

store == <<users, job_posts, applications, seq_jobs, seq_apps>>

-----------------------------------------------------------------------------
(* Bounds of the model *)

MaxTime == 1        \* the clock runs from 0 to MaxTime
MaxJobs == 1        \* post_job is called while fewer than MaxJobs jobs exist
MaxApps == 2        \* apply_to_job inserts while fewer than MaxApps rows exist
MaxPosts == 2       \* under JobSpec, post_job succeeds MaxPosts times

NULL == -1          \* a timestamp column that was never set (last_login, reviewed_at)
NullText == "<NULL>"  \* a text column that was never set (feedback, reviewed_by)

-----------------------------------------------------------------------------
(* The values the callers pass *)

Usernames == {"", "alice", "acme", "admin"}
Passwords == {"", "short", "admin123", "password123"}
Roles == {"", "Student", "Company"}
Emails == {"", "alice-at-x.com", "a@x.com", "b@x.com", "admin@phdcci.org"}
Companies == {"", "acme", "alice"}
Students == {"", "alice", "bob"}
JobIds == 0 .. (MaxJobs + 1)
AppIds == 1 .. (MaxApps + 1)
Registrations == [username : Usernames, password : Passwords, role : Roles, email : Emails]
SignUps == {a \in Registrations :
               a.username = "alice" /\ a.password = "password123" /\ a.email = "a@x.com"}
Titles == {"", "Intern"}
JobStatuses == {"Active", "Inactive"}
AppStatuses == {"Pending", "Approved", "Rejected"}
\* update_job_status and update_application_status take any string
JobStatusArgs == JobStatuses \cup {"Closed"}
AppStatusArgs == AppStatuses \cup {"Shortlisted"}
Feedbacks == {"", "Great fit"}

-----------------------------------------------------------------------------
(* hash_password and validate_email *)

\* hashlib.sha256(password.encode()).hexdigest(), by its value on each password
\* a caller passes.
hash_password(password) ==
    CASE password = ""            -> "e3b0c44298fc1c149afbf4c8996fb92427ae41e4649b934ca495991b7852b855"
      [] password = "short"       -> "f9b0078b5df596d2ea19010c001bbd009e651de2c57e8fb7e355f31eb9d3f739"
      [] password = "admin123"    -> "240be518fabd2724ddb6f04eeb1da5967448d7e831c08c8fa822809f74c720a9"
      [] password = "password123" -> "ef92b778bafe771e89245b89ecbc08a44a4e166c06659911881f383d4473e94f"

Lower == {"a","b","c","d","e","f","g","h","i","j","k","l","m",
          "n","o","p","q","r","s","t","u","v","w","x","y","z"}
Upper == {"A","B","C","D","E","F","G","H","I","J","K","L","M",
          "N","O","P","Q","R","S","T","U","V","W","X","Y","Z"}
Digits == {"0","1","2","3","4","5","6","7","8","9"}

\* The character classes of the pattern of validate_email.
LocalChars == Lower \cup Upper \cup Digits \cup {".", "_", "%", "+", "-"}
DomainChars == Lower \cup Upper \cup Digits \cup {".", "-"}
TldChars == Lower \cup Upper

\* The characters of each e-mail address a caller passes.
Chars(email) ==
    CASE email = ""                 -> << >>
      [] email = "alice-at-x.com"   -> <<"a","l","i","c","e","-","a","t","-","x",".","c","o","m">>
      [] email = "a@x.com"          -> <<"a","@","x",".","c","o","m">>
      [] email = "b@x.com"          -> <<"b","@","x",".","c","o","m">>
      [] email = "admin@phdcci.org" -> <<"a","d","m","i","n","@","p","h","d","c","c","i",".","o","r","g">>
      [] email = "b@x.com\n"        -> <<"b","@","x",".","c","o","m","\n">>

\* ^[a-zA-Z0-9._%+-]+@[a-zA-Z0-9.-]+\.[a-zA-Z]{2,} up to the end of t
MatchesPattern(t) ==
    \E i \in 1 .. Len(t) : \E j \in 1 .. Len(t) :
        /\ 1 < i /\ i + 1 < j /\ j + 2 <= Len(t)
        /\ t[i] = "@" /\ t[j] = "."
        /\ \A k \in 1 .. (i - 1) : t[k] \in LocalChars
        /\ \A k \in (i + 1) .. (j - 1) : t[k] \in DomainChars
        /\ \A k \in (j + 1) .. Len(t) : t[k] \in TldChars

\* re.match(pattern, email) is not None; "$" matches at the end of the string
\* and before a newline that ends it.
validate_email(email) ==
    LET t == Chars(email) IN
        \/ MatchesPattern(t)
        \/ /\ Len(t) > 0 /\ t[Len(t)] = "\n"
           /\ MatchesPattern(SubSeq(t, 1, Len(t) - 1))

MinPasswordLen == 8

-----------------------------------------------------------------------------
(* The return values *)

MsgRequired == "All required fields must be filled."
MsgBadEmail == "Please enter a valid email address."
MsgShortPassword == "Password must be at least 8 characters long."
MsgUsernameExists == "Username already exists."
MsgEmailExists == "Email already registered."
MsgRegistered == "Registration successful! You can now log in."
MsgRegisterDbError == "Database error during registration: UNIQUE constraint failed"
MsgCredentialsRequired == "Username and password required."
MsgLoginOk == "Login successful."
MsgInvalidCredentials == "Invalid username or password."
MsgJobRequired == "Company, title and description are required."
MsgJobPosted == "Job posted successfully."
MsgApplyRequired == "Student and job ID are required."
MsgAlreadyApplied == "You have already applied for this job."
MsgJobNotFound == "Job not found."
MsgJobClosed == "This job is no longer accepting applications."
MsgApplied == "Application submitted successfully!"
MsgApplicationNotFound == "Application not found."
MsgApplicationUpdated == "Application status updated."
MsgJobUpdated == "Job status updated."

\* One call: the function, its arguments, whether it succeeded, its message
\* and what else it returned (authenticate_user: the user; post_job: the id).
Call(op, arg, ok, msg, ret) ==
    [op |-> op, arg |-> arg, ok |-> ok, msg |-> msg, ret |-> ret]

\* No call is under way: the caller has taken the last return value.
Idle == [op |-> "idle", arg |-> {}, ok |-> TRUE, msg |-> "", ret |-> {}]

-----------------------------------------------------------------------------
(* Table users *)

UserRow(username, password_hash, role, email) ==
    [username |-> username, password_hash |-> password_hash, role |-> role,
     email |-> email, last_login |-> NULL]

\* A query that compares the e-mail column where it should compare username.
SelectUsername_ByEmail(username) == {u \in users : u.email = username}

\* SELECT username FROM users WHERE username = ?
SelectUsername(username) == {u \in users : u.username = username}

\* SELECT email FROM users WHERE email = ?
SelectEmail(email) == {u \in users : u.email = email}

\* A table users declared without PRIMARY KEY and UNIQUE.
UsersConstraints_None(table, row) == TRUE

\* username TEXT PRIMARY KEY, email TEXT UNIQUE: what INSERT INTO users enforces
UsersConstraints(table, row) ==
    /\ \A u \in table : u.username # row.username
    /\ \A u \in table : u.email # row.email

\* What init_db leaves in a new database: the three tables, empty but for the
\* default admin.
InitUsers == {UserRow("admin", hash_password("admin123"), "Admin", "admin@phdcci.org")}

\* register_user: the tuple it returns and the table it leaves.
register_user(username, password, role, email) ==
    IF username = "" \/ password = "" \/ role = "" \/ email = ""
    THEN [ok |-> FALSE, msg |-> MsgRequired, users |-> users]
    ELSE IF ~validate_email(email)
    THEN [ok |-> FALSE, msg |-> MsgBadEmail, users |-> users]
    ELSE IF Len(password) < MinPasswordLen
    THEN [ok |-> FALSE, msg |-> MsgShortPassword, users |-> users]
    ELSE IF SelectUsername(username) # {}
    THEN [ok |-> FALSE, msg |-> MsgUsernameExists, users |-> users]
    ELSE IF SelectEmail(email) # {}
    THEN [ok |-> FALSE, msg |-> MsgEmailExists, users |-> users]
    ELSE LET row == UserRow(username, hash_password(password), role, email) IN
         IF ~UsersConstraints(users, row)
         THEN [ok |-> FALSE, msg |-> MsgRegisterDbError, users |-> users]
         ELSE [ok |-> TRUE, msg |-> MsgRegistered, users |-> users \cup {row}]

\* A call register_user(a.username, a.password, a.role, a.email).
RegisterCall(a) ==
    LET r == register_user(a.username, a.password, a.role, a.email) IN
        /\ users' = r.users
        /\ registered' = IF r.ok
                         THEN registered \cup {[username |-> a.username, password |-> a.password]}
                         ELSE registered
        /\ last' = Call("register", a, r.ok, r.msg, {})
        /\ UNCHANGED <<job_posts, applications, seq_jobs, seq_apps, now, pc, loc, wlock, session_state>>

\* The registration form is submitted with any values.
Register ==
    /\ last = Idle
    /\ \E a \in Registrations : RegisterCall(a)

\* A student or a company signs up with well-formed values.
SignUp ==
    /\ last = Idle
    /\ \E a \in SignUps : RegisterCall(a)

\* A query that leaves the password hash out of its WHERE clause.
SelectCredentials_AnyPassword(username, password_hash) ==
    {u \in users : u.username = username}

\* SELECT * FROM users WHERE username = ? AND password_hash = ?
SelectCredentials(username, password_hash) ==
    {u \in users : u.username = username /\ u.password_hash = password_hash}

\* An UPDATE without its WHERE clause.
UpdateLastLogin_AllRows(username, t) ==
    {[u EXCEPT !.last_login = t] : u \in users}

\* UPDATE users SET last_login = ? WHERE username = ?
UpdateLastLogin(username, t) ==
    {IF u.username = username THEN [u EXCEPT !.last_login = t] ELSE u : u \in users}

\* An authenticate_user that looks the username up first and says which of
\* the two checks failed.
authenticate_user_SaysWhich(username, password) ==
    IF username = "" \/ password = ""
    THEN [user |-> {}, msg |-> MsgCredentialsRequired, users |-> users]
    ELSE IF SelectUsername(username) = {}
    THEN [user |-> {}, msg |-> "User not found.", users |-> users]
    ELSE LET user == SelectCredentials(username, hash_password(password)) IN
         IF user # {}
         THEN [user |-> user, msg |-> MsgLoginOk, users |-> UpdateLastLogin(username, now)]
         ELSE [user |-> {}, msg |-> "Wrong password.", users |-> users]

\* authenticate_user: the user it returns (none: the empty set), its message
\* and the table it leaves.
authenticate_user(username, password) ==
    IF username = "" \/ password = ""
    THEN [user |-> {}, msg |-> MsgCredentialsRequired, users |-> users]
    ELSE LET user == SelectCredentials(username, hash_password(password)) IN
         IF user # {}
         THEN [user |-> user, msg |-> MsgLoginOk, users |-> UpdateLastLogin(username, now)]
         ELSE [user |-> {}, msg |-> MsgInvalidCredentials, users |-> users]

Authenticate ==
    /\ last = Idle
    /\ \E username \in Usernames, password \in Passwords :
        LET r == authenticate_user(username, password) IN
            /\ users' = r.users
            /\ last' = Call("authenticate", [username |-> username, password |-> password],
                            r.user # {}, r.msg, r.user)
            /\ UNCHANGED <<job_posts, applications, seq_jobs, seq_apps, now, registered,
                           pc, loc, wlock, session_state>>

\* datetime.now() moves on between calls.
Tick ==
    /\ last = Idle
    /\ now < MaxTime
    /\ now' = now + 1
    /\ UNCHANGED <<users, job_posts, applications, seq_jobs, seq_apps, registered,
                   last, pc, loc, wlock, session_state>>

-----------------------------------------------------------------------------
(* Table job_posts *)

\* A post_job that numbers the jobs of each company from 1.
post_job_PerCompanyIds(company, title, description) ==
    IF company = "" \/ title = "" \/ description = ""
    THEN [ok |-> FALSE, msg |-> MsgJobRequired, id |-> 0,
          job_posts |-> job_posts, seq_jobs |-> seq_jobs]
    ELSE LET id == Cardinality({j \in job_posts : j.company = company}) + 1 IN
         [ok |-> TRUE, msg |-> MsgJobPosted, id |-> id,
          job_posts |-> job_posts \cup
              {[id |-> id, company |-> company, status |-> "Active"]},
          seq_jobs |-> seq_jobs + 1]

\* post_job: the tuple it returns and the table and sequence it leaves.  The
\* row gets the next AUTOINCREMENT id and the column default status 'Active'.
post_job(company, title, description) ==
    IF company = "" \/ title = "" \/ description = ""
    THEN [ok |-> FALSE, msg |-> MsgJobRequired, id |-> 0,
          job_posts |-> job_posts, seq_jobs |-> seq_jobs]
    ELSE [ok |-> TRUE, msg |-> MsgJobPosted, id |-> seq_jobs + 1,
          job_posts |-> job_posts \cup
              {[id |-> seq_jobs + 1, company |-> company, status |-> "Active"]},
          seq_jobs |-> seq_jobs + 1]

PostJob ==
    /\ last = Idle
    /\ \E company \in Companies, title \in Titles, description \in Titles :
        LET r == post_job(company, title, description) IN
            /\ r.ok => Cardinality(job_posts) < MaxJobs
            /\ job_posts' = r.job_posts
            /\ seq_jobs' = r.seq_jobs
            /\ last' = Call("postJob",
                            [company |-> company, title |-> title, description |-> description],
                            r.ok, r.msg, {r.id})
            /\ UNCHANGED <<users, applications, seq_apps, now, registered, pc, loc, wlock, session_state>>

\* UPDATE job_posts SET status = ? WHERE id = ?
UpdateJobStatus(job_id, status) ==
    {IF j.id = job_id THEN [j EXCEPT !.status = status] ELSE j : j \in job_posts}

\* A rowcount that is never 0, as if the test of it were left out.
JobRowCount_Ignored(job_id) == Cardinality({j \in job_posts : j.id = job_id}) + 1

\* cursor.rowcount of that UPDATE
JobRowCount(job_id) == Cardinality({j \in job_posts : j.id = job_id})

\* An UPDATE that tells a second identical call apart: it looks only for
\* rows whose status differs from the new one.
update_job_status_ChangedRows(job_id, status) ==
    IF {j \in job_posts : j.id = job_id /\ j.status # status} = {}
    THEN [ok |-> FALSE, msg |-> MsgJobNotFound, job_posts |-> job_posts]
    ELSE [ok |-> TRUE, msg |-> MsgJobUpdated, job_posts |-> UpdateJobStatus(job_id, status)]

\* update_job_status: the tuple it returns and the table it leaves.
update_job_status(job_id, status) ==
    IF JobRowCount(job_id) = 0
    THEN [ok |-> FALSE, msg |-> MsgJobNotFound, job_posts |-> job_posts]
    ELSE [ok |-> TRUE, msg |-> MsgJobUpdated, job_posts |-> UpdateJobStatus(job_id, status)]

\* The logged-in user `actor` changes a job's status: update_job_status is
\* passed the job and the status, and nothing of the user.
SetJobStatus ==
    /\ last = Idle
    /\ \E actor \in users, job_id \in JobIds, status \in JobStatusArgs :
        LET r == update_job_status(job_id, status) IN
            /\ job_posts' = r.job_posts
            /\ last' = Call("setJobStatus",
                            [actor |-> actor.username, role |-> actor.role,
                             job_id |-> job_id, status |-> status],
                            r.ok, r.msg, {})
            /\ UNCHANGED <<users, applications, seq_jobs, seq_apps, now, registered,
                           pc, loc, wlock, session_state>>

\* The call of update_job_status that has just returned is made once more,
\* with the same job and status.  ret is the table as the first call left it.
SetJobStatusAgain ==
    /\ last.op = "setJobStatus"
    /\ LET r == update_job_status(last.arg.job_id, last.arg.status) IN
           /\ job_posts' = r.job_posts
           /\ last' = Call("setJobStatusAgain", [first |-> last], r.ok, r.msg, job_posts)
    /\ UNCHANGED <<users, applications, seq_jobs, seq_apps, now, registered, pc, loc, wlock, session_state>>

\* post_job is called, under JobSpec up to MaxPosts times with success.
PostMoreJobs ==
    /\ last = Idle
    /\ \E company \in Companies, title \in Titles, description \in Titles :
        LET r == post_job(company, title, description) IN
            /\ r.ok => seq_jobs < MaxPosts
            /\ job_posts' = r.job_posts
            /\ seq_jobs' = r.seq_jobs
            /\ last' = Call("postJob",
                            [company |-> company, title |-> title, description |-> description],
                            r.ok, r.msg, {r.id})
            /\ UNCHANGED <<users, applications, seq_apps, now, registered, pc, loc, wlock, session_state>>

\* Python's None, passed for an argument left out
None == "<None>"

\* The status get_jobs filters by when the caller passes none (line 244)
DefaultStatus == "Active"

\* The status that stands for every status
AllStatuses == "All"

\* A query without the sentinel: WHERE status = ?
get_jobs_NoSentinel(company, status) ==
    IF company # None /\ company # ""
    THEN {j \in job_posts : j.company = company /\ j.status = status}
    ELSE {j \in job_posts : j.status = status}

\* get_jobs: with a company (a non-empty string),
\* WHERE company = ? AND (status = ? OR ? = 'All'); without,
\* WHERE status = ? OR ? = 'All'.  The rows, without their order.
get_jobs(company, status) ==
    IF company # None /\ company # ""
    THEN {j \in job_posts : j.company = company /\ (j.status = status \/ status = AllStatuses)}
    ELSE {j \in job_posts : j.status = status \/ status = AllStatuses}

\* Values passed for the filters; None for status: the argument is left out.
CompanyFilters == Companies \cup {None}
StatusFilters == JobStatusArgs \cup {AllStatuses, None}

\* get_jobs is called; it writes nothing.  ret is the rows it returns.
ListJobs ==
    /\ last = Idle
    /\ \E company \in CompanyFilters, status \in StatusFilters :
          last' = Call("listJobs", [company |-> company, status |-> status], TRUE, "",
                       get_jobs(company, IF status = None THEN DefaultStatus ELSE status))
    /\ UNCHANGED <<users, job_posts, applications, seq_jobs, seq_apps, now, registered,
                   pc, loc, wlock, session_state>>

-----------------------------------------------------------------------------
(* Table applications *)

\* A query that compares the row id where it should compare job_id.
SelectApplication_ById(student, job_id) ==
    {a \in applications : a.student = student /\ a.id = job_id}

\* SELECT id FROM applications WHERE student = ? AND job_id = ?
SelectApplication(student, job_id) ==
    {a \in applications : a.student = student /\ a.job_id = job_id}

\* That query without its WHERE clause.
SelectJob_AnyJob(job_id) == job_posts

\* SELECT id, status FROM job_posts WHERE id = ?
SelectJob(job_id) == {j \in job_posts : j.id = job_id}

\* The row INSERT INTO applications adds: the next AUTOINCREMENT id, the
\* column default status 'Pending', the review columns unset.
ApplicationRow(id, student, job_id, applied_at) ==
    [id |-> id, student |-> student, job_id |-> job_id, applied_at |-> applied_at,
     status |-> "Pending", feedback |-> NullText, reviewed_at |-> NULL,
     reviewed_by |-> NullText]

\* A status test that lets every job through.
JobIsActive_Always(j) == j.status = j.status

\* job['status'] != 'Active', negated
JobIsActive(j) == j.status = "Active"

\* apply_to_job looking the job up before it looks for an earlier application.
apply_to_job_JobFirst(student, job_id) ==
    LET unchanged(msg) == [ok |-> FALSE, msg |-> msg,
                           applications |-> applications, seq_apps |-> seq_apps]
    IN  IF student = "" \/ job_id = 0
        THEN unchanged(MsgApplyRequired)
        ELSE IF SelectJob(job_id) = {}
        THEN unchanged(MsgJobNotFound)
        ELSE IF \E j \in SelectJob(job_id) : ~JobIsActive(j)
        THEN unchanged(MsgJobClosed)
        ELSE IF SelectApplication(student, job_id) # {}
        THEN unchanged(MsgAlreadyApplied)
        ELSE [ok |-> TRUE, msg |-> MsgApplied,
              applications |-> applications \cup
                  {ApplicationRow(seq_apps + 1, student, job_id, now)},
              seq_apps |-> seq_apps + 1]

\* An apply_to_job that inserts and commits before it looks at the job.
apply_to_job_InsertFirst(student, job_id) ==
    LET inserted == applications \cup {ApplicationRow(seq_apps + 1, student, job_id, now)}
        failed(msg) == [ok |-> FALSE, msg |-> msg,
                        applications |-> inserted, seq_apps |-> seq_apps + 1]
    IN  IF student = "" \/ job_id = 0
        THEN [ok |-> FALSE, msg |-> MsgApplyRequired,
              applications |-> applications, seq_apps |-> seq_apps]
        ELSE IF SelectApplication(student, job_id) # {}
        THEN [ok |-> FALSE, msg |-> MsgAlreadyApplied,
              applications |-> applications, seq_apps |-> seq_apps]
        ELSE IF SelectJob(job_id) = {}
        THEN failed(MsgJobNotFound)
        ELSE IF \E j \in SelectJob(job_id) : ~JobIsActive(j)
        THEN failed(MsgJobClosed)
        ELSE [ok |-> TRUE, msg |-> MsgApplied,
              applications |-> inserted, seq_apps |-> seq_apps + 1]

\* apply_to_job: the tuple it returns and the table and sequence it leaves.
apply_to_job(student, job_id) ==
    LET unchanged(msg) == [ok |-> FALSE, msg |-> msg,
                           applications |-> applications, seq_apps |-> seq_apps]
    IN  IF student = "" \/ job_id = 0
        THEN unchanged(MsgApplyRequired)
        ELSE IF SelectApplication(student, job_id) # {}
        THEN unchanged(MsgAlreadyApplied)
        ELSE IF SelectJob(job_id) = {}
        THEN unchanged(MsgJobNotFound)
        ELSE IF \E j \in SelectJob(job_id) : ~JobIsActive(j)
        THEN unchanged(MsgJobClosed)
        ELSE [ok |-> TRUE, msg |-> MsgApplied,
              applications |-> applications \cup
                  {ApplicationRow(seq_apps + 1, student, job_id, now)},
              seq_apps |-> seq_apps + 1]

Apply ==
    /\ last = Idle
    /\ \E student \in Students, job_id \in JobIds :
        LET r == apply_to_job(student, job_id) IN
            /\ r.ok => Cardinality(applications) < MaxApps
            /\ applications' = r.applications
            /\ seq_apps' = r.seq_apps
            /\ last' = Call("apply", [student |-> student, job_id |-> job_id],
                            r.ok, r.msg, {})
            /\ UNCHANGED <<users, job_posts, seq_jobs, now, registered, pc, loc, wlock, session_state>>

\* That UPDATE without its WHERE clause.
UpdateApplication_AllRows(app_id, status, feedback, reviewed_at, reviewed_by) ==
    {[a EXCEPT !.status = status, !.feedback = feedback,
               !.reviewed_at = reviewed_at, !.reviewed_by = reviewed_by] : a \in applications}

\* UPDATE applications SET status = ?, feedback = ?, reviewed_at = ?,
\* reviewed_by = ? WHERE id = ?
UpdateApplication(app_id, status, feedback, reviewed_at, reviewed_by) ==
    {IF a.id = app_id
     THEN [a EXCEPT !.status = status, !.feedback = feedback,
                    !.reviewed_at = reviewed_at, !.reviewed_by = reviewed_by]
     ELSE a : a \in applications}

\* cursor.rowcount of that UPDATE
ApplicationRowCount(app_id) == Cardinality({a \in applications : a.id = app_id})

\* An UPDATE that only touches applications still Pending:
\* ... WHERE id = ? AND status = 'Pending'
update_application_status_PendingOnly(app_id, status, feedback, reviewed_by) ==
    IF {a \in applications : a.id = app_id /\ a.status = "Pending"} = {}
    THEN [ok |-> FALSE, msg |-> MsgApplicationNotFound, applications |-> applications]
    ELSE [ok |-> TRUE, msg |-> MsgApplicationUpdated,
          applications |-> UpdateApplication(app_id, status, feedback, now, reviewed_by)]

\* update_application_status: the tuple it returns and the table it leaves.
update_application_status(app_id, status, feedback, reviewed_by) ==
    IF ApplicationRowCount(app_id) = 0
    THEN [ok |-> FALSE, msg |-> MsgApplicationNotFound, applications |-> applications]
    ELSE [ok |-> TRUE, msg |-> MsgApplicationUpdated,
          applications |-> UpdateApplication(app_id, status, feedback, now, reviewed_by)]

\* The logged-in user `actor` submits the review form of review_application_page:
\* update_application_status is passed the user's name as reviewed_by.
Review ==
    /\ last = Idle
    /\ \E actor \in users, app_id \in AppIds, status \in AppStatusArgs, feedback \in Feedbacks :
        LET r == update_application_status(app_id, status, feedback, actor.username) IN
            /\ applications' = r.applications
            /\ last' = Call("review",
                            [actor |-> actor.username, role |-> actor.role, app_id |-> app_id,
                             status |-> status, feedback |-> feedback],
                            r.ok, r.msg, {})
            /\ UNCHANGED <<users, job_posts, seq_jobs, seq_apps, now, registered,
                           pc, loc, wlock, session_state>>

\* get_all_applications: SELECT a.*, j.title, j.company, u.full_name, u.email
\* FROM applications a JOIN job_posts j ON a.job_id = j.id
\* JOIN users u ON a.student = u.username.  Both joins are inner joins: a
\* row comes out per application, job and user that match.
get_all_applications ==
    {t[1] @@ [company |-> t[2].company, email |-> t[3].email] :
        t \in {x \in applications \X job_posts \X users :
                  x[1].job_id = x[2].id /\ x[1].student = x[3].username}}

\* review_application_page's message when the application is not listed
MsgPageApplicationNotFound == "Application not found"

\* review_application_page, the form submitted: update_application_status
\* is called with the selected id, the status chosen, the feedback typed
\* and the session user's name.
SubmitReview(app, new_status, feedback, username) ==
    update_application_status(app.id, new_status, feedback, username)

\* review_application_page: the logged-in user `actor` has selected an
\* application; the page looks it up among get_all_applications(), shows it
\* and, the form submitted, calls update_application_status.  ret is the
\* application as the page showed it.
ReviewPage ==
    /\ last = Idle
    /\ \E actor \in users, app_id \in AppIds, new_status \in AppStatuses,
          feedback \in Feedbacks :
        LET shown == {a \in get_all_applications : a.id = app_id}
            arg == [actor |-> actor.username, role |-> actor.role, app_id |-> app_id,
                    status |-> new_status, feedback |-> feedback]
        IN  IF shown = {}
            THEN /\ last' = Call("reviewPage", arg, FALSE, MsgPageApplicationNotFound, {})
                 /\ UNCHANGED applications
            ELSE \E app \in shown :
                    LET r == SubmitReview(app, new_status, feedback, actor.username) IN
                        /\ applications' = r.applications
                        /\ last' = Call("reviewPage", arg, r.ok, r.msg, shown)
    /\ UNCHANGED <<users, job_posts, seq_jobs, seq_apps, now, registered, pc, loc, wlock, session_state>>

\* get_all_applications is called (the admin's list, and the list the review
\* page searches); it writes nothing.  ret is the rows it returns.
ListAll ==
    /\ last = Idle
    /\ last' = Call("listAll", {}, TRUE, "", get_all_applications)
    /\ UNCHANGED <<users, job_posts, applications, seq_jobs, seq_apps, now, registered,
                   pc, loc, wlock, session_state>>

-----------------------------------------------------------------------------
(* One call at a time *)

NoSession == 0

Init ==
    /\ users = InitUsers
    /\ job_posts = {}
    /\ applications = {}
    /\ seq_jobs = 0
    /\ seq_apps = 0
    /\ now = 0
    /\ registered = {[username |-> "admin", password |-> "admin123"]}
    /\ last = Idle
    /\ pc = <<"idle", "idle">>
    /\ loc = <<{}, {}>>
    /\ wlock = NoSession
    /\ session_state = <<>>

\* The caller shows the message it was returned and is ready for the next call.
Return ==
    /\ last # Idle
    /\ last' = Idle
    /\ UNCHANGED <<users, job_posts, applications, seq_jobs, seq_apps, now, registered,
                   pc, loc, wlock, session_state>>

\* The six functions that write, by the name their calls are recorded under.
Writers == {"register", "authenticate", "postJob", "apply", "review", "setJobStatus"}

\* What a function returns from its `except sqlite3.Error as e` clause
DatabaseErrorMsg(op) ==
    CASE op = "register"     -> "Database error during registration: disk I/O error"
      [] op = "authenticate" -> "Database error during login: disk I/O error"
      [] op = "postJob"      -> "Database error posting job: disk I/O error"
      [] op = "apply"        -> "Database error applying to job: disk I/O error"
      [] op = "review"       -> "Database error updating application: disk I/O error"
      [] op = "setJobStatus" -> "Database error updating job: disk I/O error"

\* A call whose statement or commit raises sqlite3.Error: the function
\* returns from its except clause, and conn.close() in its finally clause
\* discards the transaction that was not committed.
StorageError ==
    /\ last = Idle
    /\ \E op \in Writers :
          last' = Call("storageError", [op |-> op], FALSE, DatabaseErrorMsg(op), {})
    /\ UNCHANGED <<users, job_posts, applications, seq_jobs, seq_apps, now, registered,
                   pc, loc, wlock, session_state>>

\* Registrations of one name, some of them not well-formed, some in
\* conflict with the default admin.
SomeRegistrations ==
    {a \in Registrations :
        /\ a.username = "alice" /\ a.role \in {"", "Student"}
        /\ a.password \in {"short", "password123"}
        /\ a.email \in {"alice-at-x.com", "a@x.com", "admin@phdcci.org"}}

RegisterSome ==
    /\ last = Idle
    /\ \E a \in SomeRegistrations : RegisterCall(a)

\* Values for the registration checks: each field empty or not, passwords
\* of 0, 5, 8 and 11 characters, and e-mail addresses without "@", well
\* formed, and well formed but for a newline at the end.
ValidationInputs ==
    [username : {"", "bob"}, password : Passwords, role : {"", "Student"},
     email : {"", "alice-at-x.com", "b@x.com", "b@x.com\n"}]

RegisterUnchecked ==
    /\ last = Idle
    /\ \E a \in ValidationInputs : RegisterCall(a)

\* Jobs and applications: the users sign up, post jobs, apply and review, as
\* the clock runs.
Next ==
    \/ SignUp
    \/ PostJob
    \/ SetJobStatus
    \/ Apply
    \/ Review
    \/ Tick
    \/ Return

Spec == Init /\ [][Next]_vars

\* The identity store: registration and login, as the clock runs.
IdentityNext ==
    \/ Register
    \/ Authenticate
    \/ Tick
    \/ Return

IdentitySpec == Init /\ [][IdentityNext]_vars

-----------------------------------------------------------------------------
(* Properties of jobs and applications, under Spec *)

\* This step is a call of `op`; last' holds its arguments and what it returned.
Called(op) == last = Idle /\ last'.op = op

\* The job an application row refers to.
JobOf(a) == {j \in job_posts : j.id = a.job_id}

\* The table holds an application of the student to the job.
Applied(student, job_id) ==
    \E a \in applications : a.student = student /\ a.job_id = job_id

OnePerPair ==
    \A a \in applications : \A b \in applications :
        (a.student = b.student /\ a.job_id = b.job_id) => a = b

SecondApplyFails ==
    (Called("apply") /\ Applied(last'.arg.student, last'.arg.job_id))
        => /\ ~last'.ok
           /\ last'.msg = MsgAlreadyApplied
           /\ applications' = applications

\* C1: whatever calls were made, the table holds at most one application per
\* (student, job_id), and an apply for a pair that has one fails with
\* "already applied" and adds no row.
C1_OneApplicationPerPair == []OnePerPair /\ [][SecondApplyFails]_vars

\* C1, reached: a student applied, and applied again to the same job.
C1_Witness ==
    /\ last.op = "apply" /\ last.msg = MsgAlreadyApplied
    /\ Applied(last.arg.student, last.arg.job_id)

\* C5: a review by a user of role Company whose name is not the company of the
\* application's job fails and leaves the application as it was.
C5_NonOwnerReviewDenied ==
    [][(/\ Called("review")
        /\ last'.arg.role = "Company"
        /\ \E a \in applications :
              /\ a.id = last'.arg.app_id
              /\ \E j \in JobOf(a) : j.company # last'.arg.actor)
       => (~last'.ok /\ applications' = applications)]_vars

\* The actor of a call may change the status of job j: an Admin, or the
\* Company whose username is the job's company.
MaySetStatus(arg, j) ==
    \/ arg.role = "Admin"
    \/ arg.role = "Company" /\ arg.actor = j.company

\* C6: a job's status changes only in a setJobStatus by an Admin or by the
\* Company that owns the job.
C6_OnlyOwnerOrAdminSetsStatus ==
    [][\A j \in job_posts : \A k \in job_posts' :
          (k.id = j.id /\ k.status # j.status)
              => (Called("setJobStatus") /\ MaySetStatus(last'.arg, j))]_vars

\* C7: for every student, an apply to an existing Inactive job the student has
\* not applied to fails with "job closed" and creates no application.
C7_InactiveJobClosed ==
    [][(/\ Called("apply")
        /\ last'.arg.student # ""
        /\ \E j \in job_posts : j.id = last'.arg.job_id /\ j.status = "Inactive"
        /\ ~Applied(last'.arg.student, last'.arg.job_id))
       => /\ ~last'.ok
          /\ last'.msg = MsgJobClosed
          /\ applications' = applications
          /\ seq_apps' = seq_apps]_vars

\* C7, reached: an apply to a deactivated job was turned down.
C7_Witness ==
    /\ last.op = "apply" /\ last.msg = MsgJobClosed /\ last.arg.student # ""
    /\ \E j \in job_posts : j.id = last.arg.job_id /\ j.status = "Inactive"
    /\ ~Applied(last.arg.student, last.arg.job_id)

\* The first precondition of apply that fails, in the order (a) no earlier
\* application, (b) the job exists, (c) the job is Active; none: success.
FirstFailure(student, job_id) ==
    IF Applied(student, job_id)
    THEN MsgAlreadyApplied
    ELSE IF ~\E j \in job_posts : j.id = job_id
    THEN MsgJobNotFound
    ELSE IF \E j \in job_posts : j.id = job_id /\ j.status # "Active"
    THEN MsgJobClosed
    ELSE MsgApplied

\* C8: apply reports the first precondition that fails, in the order (a), (b),
\* (c): an apply by a student who applied before the job was deactivated is
\* answered "already applied", not "job closed".
C8_PreconditionOrder ==
    [][(Called("apply") /\ last'.arg.student # "" /\ last'.arg.job_id # 0)
       => /\ last'.msg = FirstFailure(last'.arg.student, last'.arg.job_id)
          /\ last'.ok = (last'.msg = MsgApplied)]_vars

\* C8, reached: the student applied, the job was deactivated, the student
\* applied again and was told "already applied".
C8_Witness ==
    /\ last.op = "apply" /\ last.msg = MsgAlreadyApplied
    /\ \E j \in job_posts : j.id = last.arg.job_id /\ j.status = "Inactive"
    /\ Applied(last.arg.student, last.arg.job_id)

-----------------------------------------------------------------------------
(* Properties of the identity store, under IdentitySpec *)

UniqueUsers ==
    \A u \in users : \A v \in users :
        (u.username = v.username \/ u.email = v.email) => u = v

\* The values pass the checks register_user makes before it opens the database.
WellFormed(a) ==
    /\ a.username # "" /\ a.password # "" /\ a.role # "" /\ a.email # ""
    /\ validate_email(a.email)
    /\ Len(a.password) >= MinPasswordLen

UsernameTaken(a) == \E u \in users : u.username = a.username
EmailTaken(a) == \E u \in users : u.email = a.email

DuplicateRejected ==
    Called("register") =>
        /\ (UsernameTaken(last'.arg) \/ EmailTaken(last'.arg))
               => (~last'.ok /\ users' = users)
        /\ (WellFormed(last'.arg) /\ UsernameTaken(last'.arg))
               => last'.msg = MsgUsernameExists
        /\ (WellFormed(last'.arg) /\ ~UsernameTaken(last'.arg) /\ EmailTaken(last'.arg))
               => last'.msg = MsgEmailExists

\* C3: from the database init_db seeds, whatever registrations are made, no
\* two users share a username or an e-mail address; a registration with a
\* username that exists is refused with "username exists", one with an e-mail
\* address that exists with "email registered" (the username is looked up
\* first, and both after the values were validated).
C3_UniqueUsernameAndEmail == []UniqueUsers /\ [][DuplicateRejected]_vars

\* C3, reached: a registration was refused for its e-mail address, which a
\* user registered earlier (not the seeded admin) holds.
C3_Witness ==
    /\ last.op = "register" /\ last.msg = MsgEmailExists
    /\ \E u \in users : u.email = last.arg.email /\ u.username # "admin"

\* C9: authenticate succeeds exactly when the username is registered and the
\* password is the one it was registered with.
C9_AuthenticateIffRegisteredPassword ==
    [][Called("authenticate")
       => /\ last'.ok = ([username |-> last'.arg.username,
                          password |-> last'.arg.password] \in registered)
          /\ last'.ok => \A u \in last'.ret : u.username = last'.arg.username]_vars

\* C9, reached: a user who registered (not the seeded admin) has logged in
\* with the password of the registration.
C9_Witness ==
    /\ last.op = "authenticate" /\ last.ok
    /\ last.arg.username # "admin"
    /\ [username |-> last.arg.username, password |-> last.arg.password] \in registered

LastLoginMonotone ==
    \A u \in users : \E v \in users' :
        /\ v.username = u.username
        /\ v.last_login >= u.last_login
        /\ v.last_login # u.last_login
               => /\ Called("authenticate") /\ last'.ok
                  /\ last'.arg.username = u.username

LoginStamped ==
    (Called("authenticate") /\ last'.ok)
        => \A v \in users' :
               v.username = last'.arg.username => v.last_login = now

\* C10: a user's last_login never decreases: a successful authenticate sets
\* it to the time of the call, which is not before its previous value, and
\* nothing else changes it.
C10_LastLoginNeverDecreases == [][LastLoginMonotone /\ LoginStamped]_vars

\* C10, reached: a user who had logged in before logged in again, later.
C10_Witness ==
    /\ last.op = "authenticate" /\ last.ok
    /\ \E old \in last.ret : \E u \in users :
          /\ u.username = old.username
          /\ old.last_login # NULL
          /\ u.last_login > old.last_login

-----------------------------------------------------------------------------
(* Two sessions at once, under ConcSpec.                                   *)
(*                                                                         *)
(* Each call runs on a connection of its own.  A SELECT reads what is      *)
(* committed.  The sqlite3 module opens a transaction before an INSERT:    *)
(* the INSERT takes the database's write lock, which the connection holds  *)
(* until its commit, and a second writer waits for it.  The constraints    *)
(* of a table are enforced when the INSERT runs.                           *)

Sessions == {1, 2}

\* The values the two sessions pass.
ConcStudents == {"alice", "bob"}
ConcJobIds == {0, 1}
ConcRegistrations ==
    {a \in Registrations :
        /\ a.username \in {"alice", "acme"} /\ a.password = "password123"
        /\ a.role \in {"", "Student"} /\ a.email \in {"a@x.com", "b@x.com"}}

\* A session's call has returned (ok, msg).
Returned(s, ok, msg) ==
    /\ pc' = [pc EXCEPT ![s] = "done"]
    /\ loc' = [loc EXCEPT ![s] = [loc[s] EXCEPT !.ok = ok, !.msg = msg]]

Goto(s, label) == pc' = [pc EXCEPT ![s] = label]

\* apply_to_job(student, job_id) is called; lines 300-301.
ApplyBegin(s) ==
    /\ pc[s] = "idle"
    /\ \E student \in ConcStudents, job_id \in ConcJobIds :
          LET l == [op |-> "apply", arg |-> [student |-> student, job_id |-> job_id],
                    ok |-> FALSE, msg |-> "", row |-> {}]
          IN  IF student = "" \/ job_id = 0
              THEN /\ pc' = [pc EXCEPT ![s] = "done"]
                   /\ loc' = [loc EXCEPT ![s] = [l EXCEPT !.msg = MsgApplyRequired]]
              ELSE /\ pc' = [pc EXCEPT ![s] = "apply_select_application"]
                   /\ loc' = [loc EXCEPT ![s] = l]
    /\ UNCHANGED <<users, job_posts, applications, seq_jobs, seq_apps, now, registered,
                   last, wlock, session_state>>

\* lines 311-314
ApplySelectApplication(s) ==
    /\ pc[s] = "apply_select_application"
    /\ IF SelectApplication(loc[s].arg.student, loc[s].arg.job_id) # {}
       THEN Returned(s, FALSE, MsgAlreadyApplied)
       ELSE Goto(s, "apply_select_job") /\ UNCHANGED loc
    /\ UNCHANGED <<users, job_posts, applications, seq_jobs, seq_apps, now, registered,
                   last, wlock, session_state>>

\* lines 317-322
ApplySelectJob(s) ==
    /\ pc[s] = "apply_select_job"
    /\ IF SelectJob(loc[s].arg.job_id) = {}
       THEN Returned(s, FALSE, MsgJobNotFound)
       ELSE IF \E j \in SelectJob(loc[s].arg.job_id) : ~JobIsActive(j)
       THEN Returned(s, FALSE, MsgJobClosed)
       ELSE Goto(s, "apply_insert") /\ UNCHANGED loc
    /\ UNCHANGED <<users, job_posts, applications, seq_jobs, seq_apps, now, registered,
                   last, wlock, session_state>>

\* lines 325-332: the INSERT, in a transaction of the session's connection.
\* The table applications declares no constraint on (student, job_id).
ApplyInsert(s) ==
    /\ pc[s] = "apply_insert"
    /\ wlock = NoSession
    /\ Cardinality(applications) < MaxApps
    /\ wlock' = s
    /\ loc' = [loc EXCEPT ![s] = [loc[s] EXCEPT !.row =
                  {ApplicationRow(seq_apps + 1, loc[s].arg.student, loc[s].arg.job_id, now)}]]
    /\ Goto(s, "apply_commit")
    /\ UNCHANGED <<users, job_posts, applications, seq_jobs, seq_apps, now, registered, last, session_state>>

\* lines 334-337
ApplyCommit(s) ==
    /\ pc[s] = "apply_commit"
    /\ applications' = applications \cup loc[s].row
    /\ seq_apps' = seq_apps + 1
    /\ wlock' = NoSession
    /\ Returned(s, TRUE, MsgApplied)
    /\ UNCHANGED <<users, job_posts, seq_jobs, now, registered, last, session_state>>

\* register_user(...) is called; lines 127-134.
RegisterBegin(s) ==
    /\ pc[s] = "idle"
    /\ \E a \in ConcRegistrations :
          LET l == [op |-> "register", arg |-> a, ok |-> FALSE, msg |-> "", row |-> {}]
          IN  IF a.username = "" \/ a.password = "" \/ a.role = "" \/ a.email = ""
              THEN /\ pc' = [pc EXCEPT ![s] = "done"]
                   /\ loc' = [loc EXCEPT ![s] = [l EXCEPT !.msg = MsgRequired]]
              ELSE IF ~validate_email(a.email)
              THEN /\ pc' = [pc EXCEPT ![s] = "done"]
                   /\ loc' = [loc EXCEPT ![s] = [l EXCEPT !.msg = MsgBadEmail]]
              ELSE IF Len(a.password) < MinPasswordLen
              THEN /\ pc' = [pc EXCEPT ![s] = "done"]
                   /\ loc' = [loc EXCEPT ![s] = [l EXCEPT !.msg = MsgShortPassword]]
              ELSE /\ pc' = [pc EXCEPT ![s] = "register_select_username"]
                   /\ loc' = [loc EXCEPT ![s] = l]
    /\ UNCHANGED <<users, job_posts, applications, seq_jobs, seq_apps, now, registered,
                   last, wlock, session_state>>

\* lines 144-146
RegisterSelectUsername(s) ==
    /\ pc[s] = "register_select_username"
    /\ IF SelectUsername(loc[s].arg.username) # {}
       THEN Returned(s, FALSE, MsgUsernameExists)
       ELSE Goto(s, "register_select_email") /\ UNCHANGED loc
    /\ UNCHANGED <<users, job_posts, applications, seq_jobs, seq_apps, now, registered,
                   last, wlock, session_state>>

\* lines 149-151
RegisterSelectEmail(s) ==
    /\ pc[s] = "register_select_email"
    /\ IF SelectEmail(loc[s].arg.email) # {}
       THEN Returned(s, FALSE, MsgEmailExists)
       ELSE Goto(s, "register_insert") /\ UNCHANGED loc
    /\ UNCHANGED <<users, job_posts, applications, seq_jobs, seq_apps, now, registered,
                   last, wlock, session_state>>

\* lines 154-160: the INSERT; a violated constraint raises sqlite3.IntegrityError,
\* which lines 165-167 turn into the return value.
RegisterInsert(s) ==
    /\ pc[s] = "register_insert"
    /\ wlock = NoSession
    /\ LET row == UserRow(loc[s].arg.username, hash_password(loc[s].arg.password),
                          loc[s].arg.role, loc[s].arg.email)
       IN  IF UsersConstraints(users, row)
           THEN /\ wlock' = s
                /\ loc' = [loc EXCEPT ![s] = [loc[s] EXCEPT !.row = {row}]]
                /\ Goto(s, "register_commit")
           ELSE /\ Returned(s, FALSE, MsgRegisterDbError)
                /\ UNCHANGED wlock
    /\ UNCHANGED <<users, job_posts, applications, seq_jobs, seq_apps, now, registered, last, session_state>>

\* lines 161-163
RegisterCommit(s) ==
    /\ pc[s] = "register_commit"
    /\ users' = users \cup loc[s].row
    /\ registered' = registered \cup
           {[username |-> loc[s].arg.username, password |-> loc[s].arg.password]}
    /\ wlock' = NoSession
    /\ Returned(s, TRUE, MsgRegistered)
    /\ UNCHANGED <<job_posts, applications, seq_jobs, seq_apps, now, last, session_state>>

\* Meanwhile a company posts a job,
ConcPostJob ==
    /\ wlock = NoSession
    /\ Cardinality(job_posts) < MaxJobs
    /\ LET r == post_job("acme", "Intern", "Intern") IN
           job_posts' = r.job_posts /\ seq_jobs' = r.seq_jobs
    /\ UNCHANGED <<users, applications, seq_apps, now, registered, last, pc, loc, wlock, session_state>>

\* and closes or reopens it.
ConcSetJobStatus ==
    /\ wlock = NoSession
    /\ \E job_id \in 1 .. MaxJobs, status \in JobStatuses :
          LET r == update_job_status(job_id, status) IN
              r.ok /\ job_posts' = r.job_posts
    /\ UNCHANGED <<users, applications, seq_jobs, seq_apps, now, registered, last,
                   pc, loc, wlock, session_state>>

ConcNext ==
    \/ \E s \in Sessions :
          \/ ApplyBegin(s)
          \/ ApplySelectApplication(s)
          \/ ApplySelectJob(s)
          \/ ApplyInsert(s)
          \/ ApplyCommit(s)
          \/ RegisterBegin(s)
          \/ RegisterSelectUsername(s)
          \/ RegisterSelectEmail(s)
          \/ RegisterInsert(s)
          \/ RegisterCommit(s)
    \/ ConcPostJob
    \/ ConcSetJobStatus

ConcSpec == Init /\ [][ConcNext]_vars

-----------------------------------------------------------------------------
(* Properties of ConcSpec.                                                 *)

\* Both sessions ran the operation op and both calls have returned.
BothReturned(op) == \A s \in Sessions : pc[s] = "done" /\ loc[s].op = op

\* C2: two apply calls for the same (student, job_id) whose steps interleave
\* never both succeed, and at most one application of the pair is stored then.
C2_ConcurrentApplyNotBoth ==
    (BothReturned("apply") /\ loc[1].arg = loc[2].arg) =>
        /\ ~(loc[1].ok /\ loc[2].ok)
        /\ Cardinality({a \in applications : /\ a.student = loc[1].arg.student
                                            /\ a.job_id = loc[1].arg.job_id}) <= 1

\* The register call of session s passed the checks of lines 127-134.
PassedValidation(s) == loc[s].msg \notin {MsgRequired, MsgBadEmail, MsgShortPassword}

\* C4: of two register calls with the same username, or the same email, whose
\* steps interleave, at most one succeeds; once both have returned the store
\* holds one user of that username (or email), provided one of the calls
\* passed validation, and none otherwise.
C4_ConcurrentRegisterAtMostOne ==
    BothReturned("register") =>
        /\ loc[1].arg.username = loc[2].arg.username =>
              /\ ~(loc[1].ok /\ loc[2].ok)
              /\ Cardinality({u \in users : u.username = loc[1].arg.username}) =
                    IF \E s \in Sessions : PassedValidation(s) THEN 1 ELSE 0
        /\ loc[1].arg.email = loc[2].arg.email =>
              /\ ~(loc[1].ok /\ loc[2].ok)
              /\ Cardinality({u \in users : u.email = loc[1].arg.email}) =
                    IF \E s \in Sessions : PassedValidation(s) THEN 1 ELSE 0

\* C4, reached: both calls found neither the username nor the email, both
\* ran their INSERT, and the second INSERT was refused by the table.
C4_Witness ==
    /\ BothReturned("register")
    /\ loc[1].arg.username = loc[2].arg.username
    /\ \E s \in Sessions : loc[s].ok
    /\ \E s \in Sessions : ~loc[s].ok /\ loc[s].msg = MsgRegisterDbError

-----------------------------------------------------------------------------
(* Reviews and status changes, under Spec *)

\* The row of application a after the review of the call in last'.
Reviewed(a) ==
    [a EXCEPT !.status = last'.arg.status, !.feedback = last'.arg.feedback,
              !.reviewed_at = now, !.reviewed_by = last'.arg.actor]

ReviewFrame ==
    (Called("review") /\ last'.ok) =>
        /\ \E a \in applications : a.id = last'.arg.app_id
        /\ applications' = {IF a.id = last'.arg.app_id THEN Reviewed(a) ELSE a :
                               a \in applications}
        /\ Cardinality(applications') = Cardinality(applications)
        /\ UNCHANGED <<users, job_posts, seq_jobs, seq_apps>>

\* C11: a successful review sets the status, the feedback and reviewed_by
\* (the actor's username) of the application it names, whatever an earlier
\* review left there, keeps that application's student, job_id and
\* applied_at, and changes no other application, no job and no user.
C11_ReviewFrame == [][ReviewFrame]_vars

\* C11, reached: one application was reviewed while another, reviewed
\* earlier with another outcome, is still as that review left it.
C11_Witness ==
    /\ last.op = "review" /\ last.ok
    /\ \E a \in applications : \E b \in applications :
          /\ a.id = last.arg.app_id /\ b.id # a.id
          /\ a.status = last.arg.status /\ a.reviewed_by = last.arg.actor
          /\ b.reviewed_by # NullText /\ b.status # a.status /\ b.feedback # a.feedback

-----------------------------------------------------------------------------
(* The review page, under ReviewSpec *)

\* Users sign up, jobs are posted and applied to, and applications are
\* reviewed on the review page, again and again.
ReviewNext ==
    \/ SignUp
    \/ PostJob
    \/ Apply
    \/ ReviewPage
    \/ ListAll
    \/ Return

ReviewSpec == Init /\ [][ReviewNext]_vars

\* The actor of a review may review application a: an Admin, or the Company
\* that owns the job of a.
MayReview(arg, a) ==
    \/ arg.role = "Admin"
    \/ arg.role = "Company" /\ \E j \in JobOf(a) : j.company = arg.actor

\* Whatever status an application has, a permitted actor can review it to any
\* of the three statuses: the function succeeds and leaves that status.
AnyStatusNext ==
    \A a \in applications : \A u \in users : \A t \in AppStatuses : \A f \in Feedbacks :
        MayReview([actor |-> u.username, role |-> u.role], a) =>
            LET r == update_application_status(a.id, t, f, u.username) IN
                /\ r.ok
                /\ \E b \in r.applications : b.id = a.id /\ b.status = t

\* A review submitted for a listed application by a permitted actor succeeds
\* and leaves the application in the status chosen, whatever it was.
ReviewLands ==
    (/\ Called("reviewPage")
     /\ \E a \in applications : a.id = last'.arg.app_id /\ MayReview(last'.arg, a)
     /\ last'.ret # {})
        => /\ last'.ok
           /\ \E b \in applications' : b.id = last'.arg.app_id /\ b.status = last'.arg.status

\* C12: an application that is Approved or Rejected can be reviewed again,
\* back to Pending or to the other outcome: from every status, one review by
\* a permitted actor reaches each of Pending, Approved and Rejected.
C12_AnyStatusFromAnyStatus == []AnyStatusNext /\ [][ReviewLands]_vars

\* C12, reached: an application the page showed as Approved was reviewed
\* back to Pending by the company that owns its job.
C12_Witness ==
    /\ last.op = "reviewPage" /\ last.ok
    /\ last.arg.role = "Company" /\ last.arg.status = "Pending"
    /\ \E old \in last.ret : old.status = "Approved" /\ old.company = last.arg.actor
    /\ \E a \in applications : a.id = last.arg.app_id /\ a.status = "Pending"

-----------------------------------------------------------------------------
(* The job registry, under JobSpec *)

\* Jobs are posted and their status is set, now and then twice in a row.
JobNext ==
    \/ SignUp
    \/ PostMoreJobs
    \/ SetJobStatus
    \/ SetJobStatusAgain
    \/ ListJobs
    \/ Return

JobSpec == Init /\ [][JobNext]_vars

\* The first of two calls in a row succeeds for a job that exists and turns
\* its status into the one passed.
FirstSetSucceeds ==
    (Called("setJobStatus") /\ \E j \in job_posts : j.id = last'.arg.job_id)
        => /\ last'.ok
           /\ \A k \in job_posts' : k.id = last'.arg.job_id => k.status = last'.arg.status

\* The second call with the same arguments succeeds as the first did and
\* leaves the store as the first call left it.
SecondSetChangesNothing ==
    (last.op = "setJobStatus" /\ last'.op = "setJobStatusAgain")
        => /\ last'.ok = last.ok
           /\ job_posts' = job_posts
           /\ Cardinality(job_posts') = Cardinality(job_posts)
           /\ UNCHANGED <<users, applications, seq_jobs, seq_apps>>

\* C13: setJobStatus is idempotent: for an existing job and any status
\* value, a second call with the same arguments right after the first leaves
\* the store as the first call left it (same status, same jobs, nothing else
\* changed), and both calls succeed.
C13_SetJobStatusIdempotent == [][FirstSetSucceeds /\ SecondSetChangesNothing]_vars

\* C13, reached: a job was set Active twice in a row, both calls succeeded,
\* and the store still holds the job once, Active.
C13_Witness ==
    /\ last.op = "setJobStatusAgain" /\ last.ok /\ last.arg.first.ok
    /\ last.arg.first.arg.status = "Active"
    /\ last.ret = job_posts
    /\ \E j \in job_posts : j.id = last.arg.first.arg.job_id /\ j.status = "Active"

-----------------------------------------------------------------------------
(* Unknown ids, under Spec *)

UnknownIdRefused ==
    /\ (Called("setJobStatus") /\ ~\E j \in job_posts : j.id = last'.arg.job_id)
           => /\ ~last'.ok /\ last'.msg = MsgJobNotFound
              /\ UNCHANGED <<users, job_posts, applications, seq_jobs, seq_apps>>
    /\ (Called("review") /\ ~\E a \in applications : a.id = last'.arg.app_id)
           => /\ ~last'.ok /\ last'.msg = MsgApplicationNotFound
              /\ UNCHANGED <<users, job_posts, applications, seq_jobs, seq_apps>>

\* C14: a status update for an id the table does not hold fails with "not
\* found" (update_job_status: "Job not found.", update_application_status:
\* "Application not found.") and creates no row.
C14_UnknownIdNotFound == [][UnknownIdRefused]_vars

\* C14, reached: a review named an id no application has, while the table
\* holds applications of other ids, and was answered "not found".
C14_Witness ==
    /\ last.op = "review" /\ ~last.ok /\ last.msg = MsgApplicationNotFound
    /\ applications # {}
    /\ \A a \in applications : a.id # last.arg.app_id

-----------------------------------------------------------------------------
(* Listing jobs, under JobSpec *)

\* Job j matches the filter of a listJobs call; a company is passed when the
\* argument is a name (not None, not the empty string).
MatchesFilter(arg, j) ==
    /\ arg.company \notin {None, ""} => j.company = arg.company
    /\ arg.status = None => j.status = "Active"
    /\ arg.status \notin {None, "All"} => j.status = arg.status

\* C15: listJobs returns exactly the jobs that match its filter: the Active
\* ones when no status is passed, those of every status for "All", those of
\* the status passed otherwise, and of these only the jobs of the company
\* when one is passed.  It changes nothing.
C15_ListJobsMatchesFilter ==
    [][Called("listJobs")
       => /\ last'.ret = {j \in job_posts : MatchesFilter(last'.arg, j)}
          /\ UNCHANGED <<users, job_posts, applications, seq_jobs, seq_apps>>]_vars

\* C15, reached: the jobs of one company were listed with "All": the list
\* holds that company's job, which is not Active, and not the job of the
\* other company.
C15_Witness ==
    /\ last.op = "listJobs" /\ last.arg.status = "All"
    /\ last.arg.company \notin {None, ""}
    /\ \E j \in last.ret : j.status # "Active" /\ j.company = last.arg.company
    /\ \E k \in job_posts : k.company # last.arg.company /\ k \notin last.ret

-----------------------------------------------------------------------------
(* Posting jobs, under JobSpec *)

\* The largest job id assigned so far (0: none); no job is ever deleted.
RECURSIVE MaxOf(_)
MaxOf(ids) ==
    IF ids = {} THEN 0
    ELSE LET i == CHOOSE x \in ids : TRUE
             m == MaxOf(ids \ {i})
         IN  IF i > m THEN i ELSE m

LargestJobId == MaxOf({j.id : j \in job_posts})

UniqueJobIds == \A j \in job_posts : \A k \in job_posts : j.id = k.id => j = k

PostJobEffect ==
    Called("postJob") =>
        LET a == last'.arg IN
        /\ last'.ok = (a.company # "" /\ a.title # "" /\ a.description # "")
        /\ last'.ok =>
              /\ job_posts' = job_posts \cup
                     {[id |-> LargestJobId + 1, company |-> a.company, status |-> "Active"]}
              /\ Cardinality(job_posts') = Cardinality(job_posts) + 1
              /\ last'.ret = {LargestJobId + 1}
        /\ ~last'.ok => UNCHANGED <<job_posts, seq_jobs>>
        /\ UNCHANGED <<users, applications, seq_apps>>

\* Whatever is called, a job keeps its id and its company.
JobIdsKept ==
    \A j \in job_posts : \E k \in job_posts' : k.id = j.id /\ k.company = j.company

\* C16: a successful postJob adds exactly one job, Active, whose id is the
\* largest id assigned so far plus one (1 for the first); ids are unique and
\* no later call changes or reuses one; a postJob with an empty company,
\* title or description fails and adds nothing.
C16_SequentialJobIds == []UniqueJobIds /\ [][PostJobEffect /\ JobIdsKept]_vars

\* C16, reached: a second job was posted and got id 2, after the first job
\* (id 1) had been deactivated.
C16_Witness ==
    /\ last.op = "postJob" /\ last.ok /\ last.ret = {2}
    /\ \E j \in job_posts : j.id = 1 /\ j.status = "Inactive"
    /\ \E k \in job_posts : k.id = 2 /\ k.status = "Active"

-----------------------------------------------------------------------------
(* Calls that fail, under ErrorSpec *)

\* Every function that writes is called, with values that make it fail and
\* values that let it succeed; now and then the database fails.
ErrorNext ==
    \/ RegisterSome
    \/ Authenticate
    \/ PostJob
    \/ SetJobStatus
    \/ Apply
    \/ Review
    \/ StorageError
    \/ Return

ErrorSpec == Init /\ [][ErrorNext]_vars

NothingWritten ==
    (last = Idle /\ last'.op \in Writers \cup {"storageError"} /\ ~last'.ok)
        => UNCHANGED <<users, job_posts, applications, seq_jobs, seq_apps>>

\* C17: a call of register, authenticate, postJob, apply, review or
\* setJobStatus that returns an error (validation, conflict, not found, job
\* closed, database error) leaves users, job_posts and applications as they
\* were before the call.
C17_NoPartialApplication == [][NothingWritten]_vars

\* C17, reached: an apply to a deactivated job was refused while all three
\* tables hold rows written by earlier calls.
C17_Witness ==
    /\ last.op = "apply" /\ ~last.ok /\ last.msg = MsgJobClosed
    /\ applications # {} /\ job_posts # {}
    /\ \E u \in users : u.username = "alice" /\ u.last_login # NULL

-----------------------------------------------------------------------------
(* The checks of register_user, under ValidationSpec *)

ValidationNext ==
    \/ RegisterUnchecked
    \/ Return

ValidationSpec == Init /\ [][ValidationNext]_vars

\* The values are not valid: a field is empty, the address is not of the
\* form local@domain.tld from its first to its last character, or the
\* password has fewer than 8 characters.
Invalid(a) ==
    \/ a.username = "" \/ a.password = "" \/ a.role = "" \/ a.email = ""
    \/ ~MatchesPattern(Chars(a.email))
    \/ Len(a.password) < 8

ValidationMsgs == {MsgRequired, MsgBadEmail, MsgShortPassword}

InvalidRejected ==
    Called("register") =>
        /\ Invalid(last'.arg) =>
              /\ ~last'.ok /\ last'.msg \in ValidationMsgs
              /\ users' = users
        /\ ~Invalid(last'.arg) => last'.msg \notin ValidationMsgs

\* C18: register refuses values that are not valid (an empty username,
\* password, role or email, an email that is not an address, a password
\* shorter than 8 characters) with a validation message and stores no user;
\* it lets a password of exactly 8 characters through.
C18_InvalidInputRejected == [][InvalidRejected]_vars

\* The same with the addresses that end in a newline left aside.
InvalidRejectedButNewline ==
    (Called("register") /\ last'.arg.email # "b@x.com\n") => InvalidRejected

RegisterValidationButNewline == [][InvalidRejectedButNewline]_vars

\* A password of exactly 8 characters was accepted.
EightCharactersAccepted ==
    /\ last.op = "register" /\ last.ok /\ Len(last.arg.password) = 8

-----------------------------------------------------------------------------
(* What the callers are handed *)

\* C19 (under IdentitySpec): the user a successful authenticate returns, which
\* the login page keeps as the session's user, holds no password hash.
C19_NoPasswordHashReturned ==
    (last.op = "authenticate" /\ last.ok)
        => \A u \in last.ret : "password_hash" \notin DOMAIN u

\* C20 (under ReviewSpec): listAll returns every application of the table:
\* the ids in its result are the ids stored, also for an application whose
\* student is no registered user.
C20_ListAllReturnsAll ==
    last.op = "listAll" => {a.id : a \in last.ret} = {a.id : a \in applications}

-----------------------------------------------------------------------------
(* Failed logins, under IdentitySpec *)

\* What a failed authenticate returns is decided by its arguments alone:
\* the same for a username that is registered and one that is not.
FailureTellsNothing ==
    (Called("authenticate") /\ ~last'.ok) =>
        /\ last'.ret = {}
        /\ last'.msg = IF last'.arg.username = "" \/ last'.arg.password = ""
                       THEN MsgCredentialsRequired
                       ELSE MsgInvalidCredentials
        /\ UNCHANGED <<users, job_posts, applications>>

\* C21: a failed authenticate returns the same value and message, and leaves
\* the same unchanged store, for a username that is not registered as for a
\* registered one with a wrong password.
C21_FailedLoginIndistinguishable == [][FailureTellsNothing]_vars

\* C21, reached: a registered user (not the default admin) gave a wrong
\* password and was told "invalid username or password".
C21_Witness ==
    /\ last.op = "authenticate" /\ ~last.ok /\ last.msg = MsgInvalidCredentials
    /\ last.arg.username # "admin"
    /\ \E u \in users : u.username = last.arg.username

-----------------------------------------------------------------------------
(* apply_to_job against update_job_status, under ConcSpec *)

\* C22: while an apply and a setJobStatus(j, Inactive) interleave, no
\* application for j is added to the table at a moment when the stored
\* status of j is Inactive.
C22_NoInsertWhileInactive ==
    [][\A a \in applications' \ applications :
          ~\E j \in job_posts : j.id = a.job_id /\ j.status = "Inactive"]_vars

-----------------------------------------------------------------------------
(* The columns status and job_id of applications, under Spec *)

\* C23: the status of every application is Pending, Approved or Rejected,
\* whatever status a review was passed.
C23_ApplicationStatusInEnum ==
    \A a \in applications : a.status \in {"Pending", "Approved", "Rejected"}

JobIdsReferToJobs ==
    \A a \in applications : \E j \in job_posts : j.id = a.job_id

ReferencesKept ==
    /\ \A j \in job_posts : \E k \in job_posts' : k.id = j.id
    /\ \A a \in applications : \E b \in applications' : b.id = a.id /\ b.job_id = a.job_id
    /\ (Called("apply") /\ ~\E j \in job_posts : j.id = last'.arg.job_id)
           => (~last'.ok /\ applications' = applications)

\* C24: the job_id of every application is the id of a job in the table:
\* apply adds an application only for a job that exists, and no call removes
\* a job, changes a job's id or changes an application's job_id.
C24_JobIdRefersToJob == []JobIdsReferToJobs /\ [][ReferencesKept]_vars

\* C24, reached: with an application stored for job 1, now deactivated, an
\* apply to a job id that no job has was refused with "job not found".
C24_Witness ==
    /\ last.op = "apply" /\ ~last.ok /\ last.msg = MsgJobNotFound
    /\ last.arg.student # "" /\ last.arg.job_id # 0
    /\ \E a \in applications : \E j \in job_posts :
          j.id = a.job_id /\ j.status = "Inactive" /\ j.id # last.arg.job_id

-----------------------------------------------------------------------------
(* One browser session: st.session_state and the script runs of main() *)

\* The pages main() has a branch for
Pages == {"login", "register", "browse_jobs", "student_applications", "apply_job",
          "post_job", "manage_jobs", "company_applications", "admin_dashboard",
          "admin_users", "admin_applications", "admin_export", "review_application"}

\* st.session_state[key] = value
SetKey(ss, key, value) ==
    [k \in DOMAIN ss \cup {key} |-> IF k = key THEN value ELSE ss[k]]

\* lines 1295-1300
RoleDefaultPage(role) ==
    CASE role = "Student" -> "browse_jobs"
      [] role = "Company" -> "manage_jobs"
      [] role = "Admin" -> "admin_dashboard"

\* lines 1291-1302: the default page is set only when the key page is absent.
SetDefaultPage(ss) ==
    IF "page" \in DOMAIN ss
    THEN ss
    ELSE IF "user" \in DOMAIN ss
         THEN SetKey(ss, "page", RoleDefaultPage(ss["user"].role))
         ELSE SetKey(ss, "page", "login")

\* The script runs that ended in st.rerun(): the script runs again at once.
Reruns(l) ==
    \/ l.op \in {"login", "register_page"} /\ l.ok
    \/ l.op \in {"register_instead", "back_to_login", "logout"}
    \/ l.op = "main" /\ ~l.ok

\* The last script run finished and left this page on the screen.
Displayed(page) ==
    /\ last # Idle
    /\ ~Reruns(last)
    /\ "page" \in DOMAIN session_state
    /\ session_state["page"] = page

\* A run of the script with no widget pressed: the first run of the session
\* or the run that follows st.rerun(). Lines 1287-1347.
main ==
    /\ last = Idle \/ Reruns(last)
    /\ LET ss == SetDefaultPage(session_state) IN
           IF ss["page"] \in Pages
           THEN /\ session_state' = ss
                /\ last' = Call("main", last.op, TRUE, "", ss["page"])
           ELSE /\ session_state' = SetKey(ss, "page", "login")
                /\ last' = Call("main", last.op, FALSE, "Unknown page", ss["page"])
    /\ UNCHANGED <<users, job_posts, applications, seq_jobs, seq_apps, now, registered,
                   pc, loc, wlock>>

\* login_page, button Login: lines 750-760
LoginButton ==
    /\ Displayed("login")
    /\ \E username \in Usernames, password \in Passwords :
        LET arg == [username |-> username, password |-> password]
            r == authenticate_user(username, password)
        IN  IF username # "" /\ password # ""
            THEN /\ users' = r.users
                 /\ session_state' = IF r.user # {}
                                     THEN SetKey(session_state, "user",
                                                 CHOOSE u \in r.user : TRUE)
                                     ELSE session_state
                 /\ last' = Call("login", arg, r.user # {}, r.msg, r.user)
            ELSE /\ last' = Call("login", arg, FALSE,
                                 "Please enter both username and password", {})
                 /\ UNCHANGED <<users, session_state>>
    /\ UNCHANGED <<job_posts, applications, seq_jobs, seq_apps, now, registered,
                   pc, loc, wlock>>

\* login_page, button Register Instead: lines 763-765
RegisterInsteadButton ==
    /\ Displayed("login")
    /\ session_state' = SetKey(session_state, "page", "register")
    /\ last' = Call("register_instead", {}, TRUE, "", {})
    /\ UNCHANGED <<users, job_posts, applications, seq_jobs, seq_apps, now, registered,
                   pc, loc, wlock>>

\* What is typed into the registration form: alice as a student, acme as a
\* company, the role from the select box, the password typed twice alike.
FormRegistrations ==
    {a \in Registrations :
        /\ a.username \in {"alice", "acme"}
        /\ a.role = (IF a.username = "alice" THEN "Student" ELSE "Company")
        /\ a.password \in {"short", "password123"}
        /\ a.email \in {"", IF a.username = "alice" THEN "a@x.com" ELSE "b@x.com"}}

\* register_page, button Register: lines 786-805
RegisterButton ==
    /\ Displayed("register")
    /\ \E a \in FormRegistrations :
        IF a.username = "" \/ a.password = "" \/ a.email = ""
        THEN /\ last' = Call("register_page", a, FALSE,
                             "Username, password and email are required.", {})
             /\ UNCHANGED <<users, registered, session_state>>
        ELSE IF Len(a.password) < MinPasswordLen
        THEN /\ last' = Call("register_page", a, FALSE, MsgShortPassword, {})
             /\ UNCHANGED <<users, registered, session_state>>
        ELSE LET r == register_user(a.username, a.password, a.role, a.email) IN
             /\ users' = r.users
             /\ registered' = IF r.ok
                              THEN registered \cup
                                       {[username |-> a.username, password |-> a.password]}
                              ELSE registered
             /\ session_state' = IF r.ok
                                 THEN SetKey(session_state, "page", "login")
                                 ELSE session_state
             /\ last' = Call("register_page", a, r.ok, r.msg, {})
    /\ UNCHANGED <<job_posts, applications, seq_jobs, seq_apps, now, pc, loc, wlock>>

\* register_page, button Go back to Login: lines 807-809
GoBackToLoginButton ==
    /\ Displayed("register")
    /\ session_state' = SetKey(session_state, "page", "login")
    /\ last' = Call("back_to_login", {}, TRUE, "", {})
    /\ UNCHANGED <<users, job_posts, applications, seq_jobs, seq_apps, now, registered,
                   pc, loc, wlock>>

\* navigation_bar, button Logout: lines 612-616. Every key is deleted.
LogoutButton ==
    /\ last # Idle
    /\ ~Reruns(last)
    /\ "user" \in DOMAIN session_state
    /\ session_state' = <<>>
    /\ last' = Call("logout", {}, TRUE, "", {})
    /\ UNCHANGED <<users, job_posts, applications, seq_jobs, seq_apps, now, registered,
                   pc, loc, wlock>>

PortalNext ==
    \/ main
    \/ LoginButton
    \/ RegisterInsteadButton
    \/ RegisterButton
    \/ GoBackToLoginButton
    \/ LogoutButton

PortalSpec == Init /\ [][PortalNext]_vars

RunAfterLoginShowsRolePage ==
    (last.op = "login" /\ last.ok /\ last'.op = "main") =>
        /\ "user" \in DOMAIN session_state'
        /\ session_state'["page"] = RoleDefaultPage(session_state'["user"].role)
        /\ last'.ret = session_state'["page"]

\* C25: in a session that began with neither user nor page, the run of the
\* script that follows a successful login shows the default page of the
\* user's role (Student browse_jobs, Company manage_jobs, Admin
\* admin_dashboard) and not the login page, with no further action of the user.
C25_LoginShowsRoleDefaultPage == [][RunAfterLoginShowsRolePage]_vars

====
